---------------------------- MODULE Spec2Model ----------------------------
(***************************************************************************)
(* A model of the invoice extraction scripts of python_pdftoexcel_extract: *)
(*   extract_multivendor_pdf.py, extract_amazon_invoice.py,                *)
(*   extract_pdf_data.py, extract_invode_terminal.py,                      *)
(*   extract_invoice_ocr.py, extract_invoice_ocr_shape_based_FIXED.py.     *)
(*                                                                         *)
(* A text is a sequence of tokens.  A token stands for a run of characters *)
(* that the regular expressions of the scripts treat as a unit: a label    *)
(* ("Order ID"), a digit run ("220"), an amount ("10.00"), a blank (" "),  *)
(* a block of body text of a given width ("w100").  Adjacent tokens are    *)
(* concatenated without a separator, so blanks are explicit tokens.        *)
(*                                                                         *)
(* A Python value is a record [k, v, n]: k is "none" (None), "str" (a      *)
(* string, v its tokens), "num" (a float with two decimals, n its value    *)
(* in hundredths) or "raise" (the call raised instead of returning).       *)
(***************************************************************************)
EXTENDS Naturals, Integers, Sequences, FiniteSets, TLC

VARIABLES
    call,          \* the arguments of the function under study
    ret,           \* its result, "pending" before the call
    prog,          \* which of the scripts runs
    listing,       \* os.listdir(PDF_FOLDER): the entries, in listing order
    template,      \* the template file: its state and its columns
    pc,            \* the position of the script
    idx,           \* the index of the entry the loop is at
    TEMPLATE_COLUMNS,  \* template_df.columns.tolist()
    final_rows,    \* the rows collected so far
    origin,        \* for each collected row, the index of the entry it came from
    output,        \* the table written by to_excel
    error,         \* the statement whose exception ended the script
    previous       \* the table written by an earlier run on the same folder

pipeVars == <<prog, listing, template, pc, idx, TEMPLATE_COLUMNS,
              final_rows, origin, output, error, previous>>

vars == <<call, ret, pipeVars>>

---------------------------------------------------------------------------
(* Bounds of the model *)

MaxRules == 2
MaxTextLen == 3
MaxVendorLen == 4
MaxSwiggyLen == 7
MaxTaxLen == 6
MaxPages == 2
MaxPageToks == 2
MaxDocs == 2
MaxNormLen == 4
MaxNumLen == 4
MaxTotalLen == 5
MaxSellerLen == 4
MaxBillingLen == 2

---------------------------------------------------------------------------
(* Python values *)

NoneV == [k |-> "none", v |-> <<>>, n |-> 0]
StrV(s) == [k |-> "str", v |-> s, n |-> 0]
NumV(x) == [k |-> "num", v |-> <<>>, n |-> x]
Raised == [k |-> "raise", v |-> <<>>, n |-> 0]
Pending == [k |-> "pending", v |-> <<>>, n |-> 0]

\* No table has been written.
NoOutput == [written |-> FALSE, columns |-> <<>>, cells |-> <<>>]

\* No earlier run.
NoPrevious == [ran |-> FALSE, table |-> NoOutput]

\* The scripts are not running: the state of the variables of the run in
\* the specifications that study one function.
Idle ==
    /\ prog = "none"
    /\ listing = <<>>
    /\ template = [state |-> "missing", columns |-> <<>>]
    /\ pc = "idle"
    /\ idx = 1
    /\ TEMPLATE_COLUMNS = <<>>
    /\ final_rows = <<>>
    /\ origin = <<>>
    /\ output = NoOutput
    /\ error = "none"
    /\ previous = NoPrevious

\* Python truthiness of a value: None, "" and 0 are falsy.
Truthy(val) ==
    CASE val.k = "str" -> val.v # <<>>
      [] val.k = "num" -> val.n # 0
      [] OTHER -> FALSE

SeqsUpTo(S, n) == UNION {[1..k -> S] : k \in 0..n}

MinOf(S) == CHOOSE x \in S : \A y \in S : x <= y
MaxOf(S) == CHOOSE x \in S : \A y \in S : x >= y

\* The index of the first token of the set at or after i, 0 if none.
FirstOf(text, stops, i) ==
    LET hits == {t \in i..Len(text) : text[t] \in stops}
    IN  IF hits = {} THEN 0 ELSE MinOf(hits)

---------------------------------------------------------------------------
(* Character classes of tokens *)

SpaceToks == {" ", "\n"}
DigitToks == {"0", "00", "220", "123"}

AmountToks == {"0.00", "10.00", "25.00", "220.00"}

\* Whitespace: a blank, a newline, or the block of 100 blanks "s100".
IsSpace(t) == t \in SpaceToks \cup {"s100"}
IsDigits(t) == t \in DigitToks
IsAmount(t) == t \in AmountToks

\* float(v.replace(",", "")) of an amount, in hundredths.
Cents(t) ==
    CASE t = "0.00" -> 0
      [] t = "10.00" -> 1000
      [] t = "25.00" -> 2500
      [] t = "220.00" -> 22000

\* The first index >= i of text that holds no blank (Len(text)+1 if none):
\* where a greedy \s* starting at i stops.
RECURSIVE SkipSpaces(_, _)
SkipSpaces(text, i) ==
    IF i <= Len(text) /\ IsSpace(text[i]) THEN SkipSpaces(text, i + 1) ELSE i

\* The last index of the run of digit tokens that starts at i: a greedy \d+.
RECURSIVE DigitRunEnd(_, _)
DigitRunEnd(text, i) ==
    IF i + 1 <= Len(text) /\ IsDigits(text[i + 1])
    THEN DigitRunEnd(text, i + 1) ELSE i

\* The tokens made of letters and blanks only, two characters or more.
NameToks == {"ACME", "Swiggy", "Seller Name", "Order ID", "Invoice Value", "TAX INVOICE"}

\* The last index of the run of letter and blank tokens that starts at i.
RECURSIVE NameRunEnd(_, _)
NameRunEnd(text, i) ==
    IF i + 1 <= Len(text) /\ (text[i + 1] \in NameToks \/ text[i + 1] \in SpaceToks)
    THEN NameRunEnd(text, i + 1) ELSE i

\* str.strip(): leading and trailing blanks removed.
RECURSIVE LStrip(_)
LStrip(s) == IF s # <<>> /\ IsSpace(Head(s)) THEN LStrip(Tail(s)) ELSE s

RECURSIVE RStrip(_)
RStrip(s) ==
    IF s # <<>> /\ IsSpace(s[Len(s)]) THEN RStrip(SubSeq(s, 1, Len(s) - 1)) ELSE s

Strip(s) == RStrip(LStrip(s))

---------------------------------------------------------------------------
\* Rules: the shapes of the patterns the scripts hand to extract_field.
\*   digits   a label, blanks, a captured digit run      (Order ID, FSSAI)
\*   rest     a label, blanks, a captured rest of text   (Amount in Words)
\*   nogroup  a label, blanks, a digit run, no capture group
\*   amount   a label, blanks, a captured amount         (IGST, CGST, SGST)
\*   od       a label, blanks, a captured OD number      (Order ID, flipkart)
\*   until    a label, blanks, a lazy captured group up to the first of
\*            the rule's stop tokens                     (Billing Address)
\*   name     a label, blanks, a captured greedy run of letters and
\*            blanks that begins with a letter           (Seller Name)
\* Rules of kind name are applied to texts in which the run of letters
\* ends at a digit token or at the end of the text.
\* Rules of kind digits are applied to texts without amount tokens only.

RuleLabels == {"Order ID", "FSSAI"}
RuleKinds == {"digits", "rest", "nogroup"}
Rules == [label : RuleLabels, kind : RuleKinds]

FieldToks == RuleLabels \cup {"123", " "}

\* Whether the pattern matches with its label at index i.
MatchAt(rule, text, i) ==
    /\ i \in 1..Len(text)
    /\ text[i] = rule.label
    /\ LET j == SkipSpaces(text, i + 1)
       IN  CASE rule.kind = "rest" -> TRUE
             [] rule.kind = "until" -> FirstOf(text, rule.stops, j) # 0
             [] rule.kind = "amount" -> j <= Len(text) /\ IsAmount(text[j])
             [] rule.kind = "od" -> j <= Len(text) /\ text[j] = "OD123"
             [] rule.kind = "name" -> j <= Len(text) /\ text[j] \in NameToks
             [] OTHER -> j <= Len(text) /\ IsDigits(text[j])

\* re.search: the index of the leftmost match, 0 when there is none.
SearchPos(rule, text) ==
    LET hits == {i \in 1..Len(text) : MatchAt(rule, text, i)}
    IN  IF hits = {} THEN 0 ELSE MinOf(hits)

Matches(rule, text) == SearchPos(rule, text) # 0

HasGroup(rule) == rule.kind # "nogroup"

\* m.group(1) of the leftmost match of a rule with a group.
Group1(rule, text) ==
    LET i == SearchPos(rule, text)
        j == SkipSpaces(text, i + 1)
    IN  CASE rule.kind = "rest" -> SubSeq(text, j, Len(text))
          [] rule.kind = "until" -> SubSeq(text, j, FirstOf(text, rule.stops, j) - 1)
          [] rule.kind \in {"amount", "od"} -> SubSeq(text, j, j)
          [] rule.kind = "name" -> SubSeq(text, j, NameRunEnd(text, j))
          [] OTHER -> SubSeq(text, j, DigitRunEnd(text, j))

\* m.group(0) of the leftmost match: the whole match.
Group0(rule, text) ==
    LET i == SearchPos(rule, text)
        j == SkipSpaces(text, i + 1)
    IN  IF rule.kind = "rest"
        THEN SubSeq(text, i, Len(text))
        ELSE SubSeq(text, i, DigitRunEnd(text, j))

---------------------------------------------------------------------------
(* extract_field and find_first *)

\* The body of the loop of extract_field in extract_multivendor_pdf.py,
\* extract_pdf_data.py and extract_invode_terminal.py, on a rule that
\* matches: m.group(1).strip(), IndexError when the pattern has no group.
FieldOfMatch(rule, text) ==
    IF HasGroup(rule) THEN StrV(Strip(Group1(rule, text))) ELSE Raised

\* The same in extract_amazon_invoice.py: group(1) when m.lastindex >= 1,
\* else group(0), both stripped.
FieldOfMatchAmazon(rule, text) ==
    IF HasGroup(rule)
    THEN StrV(Strip(Group1(rule, text)))
    ELSE StrV(Strip(Group0(rule, text)))

\* The same in find_first: m.group(1), not stripped.
FirstOfMatch(rule, text) ==
    IF HasGroup(rule) THEN StrV(Group1(rule, text)) ELSE Raised

RECURSIVE extract_field_last(_, _)
extract_field_last(text, patterns) ==
    IF patterns = <<>> THEN NoneV
    ELSE LET pat == patterns[Len(patterns)]
         IN  IF Matches(pat, text)
             THEN FieldOfMatch(pat, text)
             ELSE extract_field_last(text, SubSeq(patterns, 1, Len(patterns) - 1))

RECURSIVE extract_field(_, _)
extract_field(text, patterns) ==
    IF patterns = <<>> THEN NoneV
    ELSE IF Matches(Head(patterns), text)
         THEN FieldOfMatch(Head(patterns), text)
         ELSE extract_field(text, Tail(patterns))

RECURSIVE extract_field_amazon(_, _)
extract_field_amazon(text, patterns) ==
    IF patterns = <<>> THEN NoneV
    ELSE IF Matches(Head(patterns), text)
         THEN FieldOfMatchAmazon(Head(patterns), text)
         ELSE extract_field_amazon(text, Tail(patterns))

RECURSIVE find_first(_, _)
find_first(patterns, text) ==
    IF patterns = <<>> THEN NoneV
    ELSE IF Matches(Head(patterns), text)
         THEN FirstOfMatch(Head(patterns), text)
         ELSE find_first(Tail(patterns), text)

---------------------------------------------------------------------------
(* SpecField: extract_field / find_first applied to every text and every   *)
(* rule list within the bounds.                                            *)

InitField ==
    /\ call \in [fn : {"extract_field"},
                 text : SeqsUpTo(FieldToks, MaxTextLen),
                 patterns : SeqsUpTo(Rules, MaxRules)]
    /\ ret = Pending
    /\ Idle

CallExtractField ==
    /\ call.fn = "extract_field"
    /\ ret = Pending
    /\ ret' = [multivendor |-> extract_field(call.text, call.patterns),
               amazon |-> extract_field_amazon(call.text, call.patterns),
               find_first |-> find_first(call.patterns, call.text)]
    /\ UNCHANGED <<call, pipeVars>>

NextField == CallExtractField

SpecField == InitField /\ [][NextField]_vars

\* The indices of the rules of the call that match its text.
MatchingRules == {i \in 1..Len(call.patterns) : Matches(call.patterns[i], call.text)}

FirstMatching == call.patterns[MinOf(MatchingRules)]

\* C1: the result of extract_field (all three scripts' versions) and of
\* find_first is decided by the lowest-indexed matching rule alone: it is
\* that rule's first group (stripped by extract_field, as captured by
\* find_first) whatever the later rules would capture, and it is None
\* exactly when no rule matches.
C1_CascadeShortCircuit ==
    (call.fn = "extract_field" /\ ret # Pending) =>
        /\ (MatchingRules = {}) <=> (ret.multivendor = NoneV)
        /\ (MatchingRules = {}) <=> (ret.amazon = NoneV)
        /\ (MatchingRules = {}) <=> (ret.find_first = NoneV)
        /\ (MatchingRules # {} /\ HasGroup(FirstMatching)) =>
              /\ ret.multivendor = StrV(Strip(Group1(FirstMatching, call.text)))
              /\ ret.amazon = StrV(Strip(Group1(FirstMatching, call.text)))
              /\ ret.find_first = StrV(Group1(FirstMatching, call.text))

\* A call where the first rule and a later rule both match, with different
\* captures, and the first rule's capture was returned.
C1_Witness ==
    /\ call.fn = "extract_field" /\ ret # Pending
    /\ Len(call.patterns) = 2
    /\ Matches(call.patterns[1], call.text)
    /\ Matches(call.patterns[2], call.text)
    /\ HasGroup(call.patterns[1]) /\ HasGroup(call.patterns[2])
    /\ Group1(call.patterns[1], call.text) # Group1(call.patterns[2], call.text)
    /\ ret.multivendor = StrV(Strip(Group1(call.patterns[1], call.text)))

\* The value the first matching rule selects: its first group when the
\* pattern has one, the whole match when it has none, trimmed.
SelectedGroup ==
    IF HasGroup(FirstMatching)
    THEN StrV(Strip(Group1(FirstMatching, call.text)))
    ELSE StrV(Strip(Group0(FirstMatching, call.text)))

\* C11: when a rule matches, every version of extract_field and find_first
\* returns the trimmed first group of the first matching rule, or its
\* trimmed whole match when the pattern has no group, and does not raise.
C11_GroupSelection ==
    (call.fn = "extract_field" /\ ret # Pending /\ MatchingRules # {}) =>
        /\ ret.multivendor = SelectedGroup
        /\ ret.amazon = SelectedGroup
        /\ ret.find_first = SelectedGroup

\* The same for extract_field of extract_amazon_invoice.py alone, which
\* tests m.lastindex.
C11_GroupSelectionAmazon ==
    (call.fn = "extract_field" /\ ret # Pending /\ MatchingRules # {}) =>
        ret.amazon = SelectedGroup

---------------------------------------------------------------------------
(* detect_vendor *)

VendorToks == {"Amazon", "FLIPKART", "Swiggy", "Shopler", "EStore", " ", "x"}

\* str.lower() of one token.
LowerTok(t) ==
    CASE t = "Amazon" -> "amazon"
      [] t = "FLIPKART" -> "flipkart"
      [] t = "Swiggy" -> "swiggy"
      [] t = "Shopler" -> "shopler"
      [] t = "EStore" -> "estore"
      [] OTHER -> t

Lower(text) == [i \in 1..Len(text) |-> LowerTok(text[i])]

\* needle in text: needle occurs as a contiguous part of text.
Contains(text, needle) ==
    \E i \in 1..Len(text) :
        /\ i + Len(needle) - 1 <= Len(text)
        /\ SubSeq(text, i, i + Len(needle) - 1) = needle

detect_vendor_swapped(text) ==
    LET t == Lower(text)
    IN  IF Contains(t, <<"amazon">>) THEN "amazon"
        ELSE IF Contains(t, <<"swiggy">>) THEN "swiggy"
        ELSE IF Contains(t, <<"flipkart">>) \/ Contains(t, <<"shopler", " ", "estore">>)
             THEN "flipkart"
        ELSE "unknown"

detect_vendor(text) ==
    LET t == Lower(text)
    IN  IF Contains(t, <<"amazon">>) THEN "amazon"
        ELSE IF Contains(t, <<"flipkart">>) \/ Contains(t, <<"shopler", " ", "estore">>)
             THEN "flipkart"
        ELSE IF Contains(t, <<"swiggy">>) THEN "swiggy"
        ELSE "unknown"

---------------------------------------------------------------------------
(* SpecVendor: detect_vendor applied to every text within the bounds.      *)

InitVendor ==
    /\ call \in [fn : {"detect_vendor"}, text : SeqsUpTo(VendorToks, MaxVendorLen)]
    /\ ret = Pending
    /\ Idle

CallDetectVendor ==
    /\ call.fn = "detect_vendor"
    /\ ret = Pending
    /\ ret' = StrV(<<detect_vendor(call.text)>>)
    /\ UNCHANGED <<call, pipeVars>>

NextVendor == CallDetectVendor

SpecVendor == InitVendor /\ [][NextVendor]_vars

\* The vendors in priority order, and the lower-case tokens that identify
\* each (flipkart has two: its name, and the seller name "shopler estore").
VendorPriority == <<"amazon", "flipkart", "swiggy">>

VendorNeedles(vendor) ==
    CASE vendor = "amazon" -> {<<"amazon">>}
      [] vendor = "flipkart" -> {<<"flipkart">>, <<"shopler", " ", "estore">>}
      [] vendor = "swiggy" -> {<<"swiggy">>}

\* Whether a token of the vendor occurs in the text, whatever its case.
TokenOccurs(vendor, text) ==
    \E needle \in VendorNeedles(vendor) :
        \E i \in 1..Len(text) :
            /\ i + Len(needle) - 1 <= Len(text)
            /\ \A d \in 1..Len(needle) : LowerTok(text[i + d - 1]) = needle[d]

VendorsPresent(text) == {p \in 1..3 : TokenOccurs(VendorPriority[p], text)}

\* C9: detect_vendor returns the highest-priority vendor (amazon, then
\* flipkart, then swiggy) one of whose tokens occurs in the text in any
\* case, and unknown when no vendor token occurs.
C9_VendorPriority ==
    (call.fn = "detect_vendor" /\ ret # Pending) =>
        ret = IF VendorsPresent(call.text) = {}
              THEN StrV(<<"unknown">>)
              ELSE StrV(<<VendorPriority[MinOf(VendorsPresent(call.text))]>>)

\* A text with the tokens of two vendors, in mixed case and with the
\* lower-priority one first, classified as the higher-priority one.
C9_Witness ==
    /\ call.fn = "detect_vendor" /\ ret # Pending
    /\ Len(call.text) >= 2
    /\ call.text[1] = "Swiggy"
    /\ TokenOccurs("flipkart", call.text)
    /\ ret = StrV(<<"flipkart">>)

---------------------------------------------------------------------------
(* Rows: a Python dict, in insertion order, as a sequence of [key, val].   *)

HasKey(row, key) == \E i \in 1..Len(row) : row[i].key = key

Get(row, key) == row[CHOOSE i \in 1..Len(row) : row[i].key = key].val

\* row[key] = val
SetKey(row, key, val) ==
    IF HasKey(row, key)
    THEN [i \in 1..Len(row) |-> IF row[i].key = key
                                THEN [key |-> key, val |-> val] ELSE row[i]]
    ELSE Append(row, [key |-> key, val |-> val])

\* {c: None for c in columns}
RECURSIVE NoneRow(_)
NoneRow(columns) ==
    IF columns = <<>> THEN <<>>
    ELSE SetKey(NoneRow(SubSeq(columns, 1, Len(columns) - 1)),
                columns[Len(columns)], NoneV)

---------------------------------------------------------------------------
(* extract_swiggy *)

SwiggyToks == {"TAX INVOICE", "Invoice Value", "0", "220", " "}

\* Every token that is not a blank begins and ends with a letter or a digit,
\* so a word boundary lies between two tokens exactly when one is a blank.
IsWordTok(t) == ~IsSpace(t)

\* Whether the anchor pattern (word boundary, TAX, blanks, INVOICE, word
\* boundary) matches at index i.
IsAnchorAt(text, i) ==
    /\ text[i] = "TAX INVOICE"
    /\ i = 1 \/ ~IsWordTok(text[i - 1])
    /\ i = Len(text) \/ ~IsWordTok(text[i + 1])

\* re.split on the anchor: the parts of the text between the anchors,
\* the part before the first anchor and the part after the last included.
RECURSIVE SplitBlocks(_, _, _)
SplitBlocks(text, i, cur) ==
    IF i > Len(text) THEN <<cur>>
    ELSE IF IsAnchorAt(text, i)
         THEN <<cur>> \o SplitBlocks(text, i + 1, <<>>)
         ELSE SplitBlocks(text, i + 1, Append(cur, text[i]))

InvoiceValueRule == [label |-> "Invoice Value", kind |-> "digits"]
OrderIdRule == [label |-> "Order ID", kind |-> "digits"]
SellerNameRule == [label |-> "Seller Name", kind |-> "name"]

\* inv in ("0", "00"): the captured digits spell 0 or 00.
IsZeroValue(inv) == inv.k = "str" /\ inv.v \in {<<"0">>, <<"00">>, <<"0", "0">>}

\* The row extract_swiggy builds for a block it keeps.  Of the flat fields
\* order_number and seller_name are represented; invoice_number, the dates,
\* seller_gst, fssai_license and the addresses are set by the same
\* extract_field calls with their own patterns.
SwiggyRow(b, inv, pdf_name, columns) ==
    LET r0 == SetKey(NoneRow(columns), "Field", StrV(<<pdf_name>>))
        r1 == SetKey(r0, "order_number", extract_field(b, <<OrderIdRule>>))
        r2 == SetKey(r1, "seller_name", extract_field(b, <<SellerNameRule>>))
    IN  SetKey(r2, "total_amount", inv)

\* The loop of extract_swiggy over the blocks, without the test for 0.
RECURSIVE SwiggyRowsKeepZero(_, _, _)
SwiggyRowsKeepZero(blocks, pdf_name, columns) ==
    IF blocks = <<>> THEN <<>>
    ELSE LET b == Head(blocks)
             inv == extract_field(b, <<InvoiceValueRule>>)
             rest == SwiggyRowsKeepZero(Tail(blocks), pdf_name, columns)
         IN  IF ~Truthy(inv)
             THEN rest
             ELSE <<SwiggyRow(b, inv, pdf_name, columns)>> \o rest

\* The loop of extract_swiggy over the blocks.
RECURSIVE SwiggyRows(_, _, _)
SwiggyRows(blocks, pdf_name, columns) ==
    IF blocks = <<>> THEN <<>>
    ELSE LET b == Head(blocks)
             inv == extract_field(b, <<InvoiceValueRule>>)
             rest == SwiggyRows(Tail(blocks), pdf_name, columns)
         IN  IF ~Truthy(inv) \/ IsZeroValue(inv)
             THEN rest
             ELSE <<SwiggyRow(b, inv, pdf_name, columns)>> \o rest

extract_swiggy(text, pdf_name, columns) ==
    SwiggyRows(SplitBlocks(text, 1, <<>>), pdf_name, columns)

---------------------------------------------------------------------------
(* SpecSwiggy: extract_swiggy applied to every text within the bounds.     *)

InitSwiggy ==
    /\ call \in [fn : {"extract_swiggy"},
                 text : SeqsUpTo(SwiggyToks, MaxSwiggyLen),
                 pdf_name : {"s.pdf"},
                 columns : {<<"Field", "total_amount">>}]
    /\ ret = Pending
    /\ Idle

CallExtractSwiggy ==
    /\ call.fn = "extract_swiggy"
    /\ ret = Pending
    /\ ret' = [rows |-> extract_swiggy(call.text, call.pdf_name, call.columns)]
    /\ UNCHANGED <<call, pipeVars>>

NextSwiggy == CallExtractSwiggy

SpecSwiggy == InitSwiggy /\ [][NextSwiggy]_vars

\* The segments of the call's text, cut at the anchors.
Segments == SplitBlocks(call.text, 1, <<>>)

\* A segment contains the invoice-value marker: the label followed, after
\* optional blanks, by digits.
HasMarker(seg) == \E i \in 1..Len(seg) : MatchAt(InvoiceValueRule, seg, i)

\* The digits that follow the first marker of a segment.
MarkerDigits(seg) ==
    LET i == MinOf({k \in 1..Len(seg) : MatchAt(InvoiceValueRule, seg, k)})
        j == SkipSpaces(seg, i + 1)
    IN  SubSeq(seg, j, DigitRunEnd(seg, j))

ZeroDigits == {<<"0">>, <<"00">>, <<"0", "0">>}

\* C2 as stated: extract_swiggy returns as many records as there are
\* segments that contain the invoice-value marker.
C2_OneRecordPerMarkedSegment ==
    (call.fn = "extract_swiggy" /\ ret # Pending) =>
        Len(ret.rows) = Cardinality({k \in 1..Len(Segments) : HasMarker(Segments[k])})

\* C2 amended: extract_swiggy returns one record per segment whose first
\* invoice-value marker is followed by digits other than 0 and 00, in
\* segment order, with that digit run as total_amount; segments without a
\* marker, and segments whose value is 0 or 00, yield no record.
C2_OneRecordPerNonZeroSegment ==
    (call.fn = "extract_swiggy" /\ ret # Pending) =>
        LET kept == {k \in 1..Len(Segments) :
                        HasMarker(Segments[k]) /\ MarkerDigits(Segments[k]) \notin ZeroDigits}
        IN  /\ Len(ret.rows) = Cardinality(kept)
            /\ \A n \in 1..Len(ret.rows) :
                  \E k \in kept :
                      /\ Cardinality({j \in kept : j < k}) = n - 1
                      /\ Get(ret.rows[n], "total_amount") = StrV(MarkerDigits(Segments[k]))

\* A text of two segments that both contain the marker, one with a zero
\* value and one with a non-zero value, that yielded exactly one record.
C2_Witness ==
    /\ call.fn = "extract_swiggy" /\ ret # Pending
    /\ Len(Segments) = 2
    /\ \E k \in 1..2 :
          HasMarker(Segments[k]) /\ MarkerDigits(Segments[k]) \in ZeroDigits
    /\ \E k \in 1..2 :
          HasMarker(Segments[k]) /\ MarkerDigits(Segments[k]) \notin ZeroDigits
    /\ Len(ret.rows) = 1

---------------------------------------------------------------------------
(* Tax aggregation of extract_amazon and extract_flipkart *)

TaxLabels == {"CGST", "SGST", "IGST"}
TaxToks == TaxLabels \cup {"10.00", "25.00", " "}

\* len() of a token, in characters.
Width(t) ==
    CASE t \in {"0", "x"} \cup SpaceToks -> 1
      [] t = "00" -> 2
      [] t \in {"123", "220"} -> 3
      [] t \in TaxLabels \cup {"0.00", "ACME", "ocr1", "ocr2", "ocr3", "ocr4"} -> 4
      [] t \in {"10.00", "25.00", "GSTIN", "FSSAI", "OD123", "TOTAL"} -> 5
      [] t \in {"220.00", "Amazon", "Swiggy"} -> 6
      [] t = "Sold By" -> 7
      [] t \in {"FLIPKART", "Order ID"} -> 8
      [] t \in {"TAX INVOICE", "Seller Name"} -> 11
      [] t = "Order Number" -> 12
      [] t = "Invoice Value" -> 13
      [] t = "Billing Address:" -> 16
      [] t = "w99" -> 99
      [] t \in {"w100", "s100"} -> 100
      [] t = "w250" -> 250
      [] t = "w20" -> 20
      [] t = "Grand Total" -> 11
      [] t = "TOTAL Amount" -> 12

\* Whether a token holds a digit.
HasDigit(t) == IsAmount(t) \/ IsDigits(t)

\* The first index >= i of a token that holds a digit (Len(text)+1 if none).
RECURSIVE GapEnd(_, _)
GapEnd(text, i) ==
    IF i <= Len(text) /\ ~HasDigit(text[i]) THEN GapEnd(text, i + 1) ELSE i

RECURSIVE WidthOf(_)
WidthOf(s) == IF s = <<>> THEN 0 ELSE Width(Head(s)) + WidthOf(Tail(s))

\* re.findall of a tax label, at most 10 characters without a digit, and an
\* amount: the amounts of the matches, left to right, without overlap.
RECURSIVE TaxFindall(_, _)
TaxFindall(text, i) ==
    IF i > Len(text) THEN <<>>
    ELSE LET j == GapEnd(text, i + 1)
         IN  IF /\ text[i] \in TaxLabels
                /\ j <= Len(text)
                /\ IsAmount(text[j])
                /\ WidthOf(SubSeq(text, i + 1, j - 1)) <= 10
             THEN <<Cents(text[j])>> \o TaxFindall(text, j + 1)
             ELSE TaxFindall(text, i + 1)

RECURSIVE SumSeq(_)
SumSeq(s) == IF s = <<>> THEN 0 ELSE Head(s) + SumSeq(Tail(s))

\* Lines 148-150 of extract_amazon: the sum of every tax amount found.
AmazonTax(text, row) ==
    LET taxes == TaxFindall(text, 1)
    IN  IF taxes # <<>> THEN SetKey(row, "total_tax", NumV(SumSeq(taxes))) ELSE row

TaxRule(label) == [label |-> label, kind |-> "amount"]

\* tax += float(v) when v is truthy
AddTax(tax, val) == IF Truthy(val) THEN tax + Cents(val.v[1]) ELSE tax

\* Lines 171-179 of extract_flipkart: the first IGST, CGST and SGST amounts
\* added up; total_tax is set when the sum is not zero.
FlipkartTax(text, row) ==
    LET igst == extract_field(text, <<TaxRule("IGST")>>)
        cgst == extract_field(text, <<TaxRule("CGST")>>)
        sgst == extract_field(text, <<TaxRule("SGST")>>)
        tax == AddTax(AddTax(AddTax(0, igst), cgst), sgst)
    IN  IF tax # 0 THEN SetKey(row, "total_tax", NumV(tax)) ELSE row

---------------------------------------------------------------------------
(* SpecTax: the tax aggregation of both strategies applied to every text   *)
(* within the bounds, on a row whose total_tax is None.                    *)

InitTax ==
    /\ call \in [fn : {"total_tax"}, text : SeqsUpTo(TaxToks, MaxTaxLen)]
    /\ ret = Pending
    /\ Idle

CallTax ==
    /\ call.fn = "total_tax"
    /\ ret = Pending
    /\ LET row == NoneRow(<<"Field", "total_tax">>)
       IN  ret' = [amazon |-> Get(AmazonTax(call.text, row), "total_tax"),
                   flipkart |-> Get(FlipkartTax(call.text, row), "total_tax")]
    /\ UNCHANGED <<call, pipeVars>>

NextTax == CallTax

SpecTax == InitTax /\ [][NextTax]_vars

\* The amounts that directly follow (after optional blanks) a given label.
AmountsOf(label, text) ==
    {i \in 1..Len(text) : MatchAt(TaxRule(label), text, i)}

\* The amount that follows the label at index i.
AmountAfter(text, i) == Cents(text[SkipSpaces(text, i + 1)])

\* The text carries each present tax label once, followed by its amount.
WellFormedTax(text) ==
    \A label \in TaxLabels :
        /\ Cardinality({i \in 1..Len(text) : text[i] = label}) <= 1
        /\ \A i \in 1..Len(text) : text[i] = label => MatchAt(TaxRule(label), text, i)

TaxOf(label, text) ==
    IF AmountsOf(label, text) = {} THEN 0
    ELSE AmountAfter(text, MinOf(AmountsOf(label, text)))

\* C4: on a text that carries each tax label at most once, followed by its
\* amount: when CGST and SGST are present total_tax is their sum, IGST not
\* added; when only IGST is present total_tax is the IGST amount.
C4_TaxAggregation ==
    (call.fn = "total_tax" /\ ret # Pending /\ WellFormedTax(call.text)) =>
        LET hasC == AmountsOf("CGST", call.text) # {}
            hasS == AmountsOf("SGST", call.text) # {}
            hasI == AmountsOf("IGST", call.text) # {}
            domestic == NumV(TaxOf("CGST", call.text) + TaxOf("SGST", call.text))
        IN  /\ (hasC /\ hasS) =>
                  ret.amazon = domestic /\ ret.flipkart = domestic
            /\ (hasI /\ ~hasC /\ ~hasS) =>
                  /\ ret.amazon = NumV(TaxOf("IGST", call.text))
                  /\ ret.flipkart = NumV(TaxOf("IGST", call.text))

\* The two cases of C4 that the code agrees with, for reference: CGST and
\* SGST without IGST, and IGST alone.
C4_ExclusiveFamilies ==
    (call.fn = "total_tax" /\ ret # Pending /\ WellFormedTax(call.text)) =>
        LET hasC == AmountsOf("CGST", call.text) # {}
            hasS == AmountsOf("SGST", call.text) # {}
            hasI == AmountsOf("IGST", call.text) # {}
            domestic == NumV(TaxOf("CGST", call.text) + TaxOf("SGST", call.text))
        IN  /\ (hasC /\ hasS /\ ~hasI) =>
                  ret.amazon = domestic /\ ret.flipkart = domestic
            /\ (hasI /\ ~hasC /\ ~hasS) =>
                  /\ ret.amazon = NumV(TaxOf("IGST", call.text))
                  /\ ret.flipkart = NumV(TaxOf("IGST", call.text))

---------------------------------------------------------------------------
(* extract_text: native text first, OCR below the threshold                *)
(*                                                                         *)
(* A document is [name, pages, render].  A page is [native, ocr]: native   *)
(* is what page.extract_text() does (a string, None, or Raised), ocr what  *)
(* pytesseract.image_to_string does on the page's image (a string or       *)
(* Raised).  render is "raise" when convert_from_path raises.  A failure   *)
(* of pdfplumber.open is a document whose first page raises.               *)

OcrThreshold == 200

\* Characters that are not whitespace.
RECURSIVE NonSpaceWidth(_)
NonSpaceWidth(s) ==
    IF s = <<>> THEN 0
    ELSE (IF IsSpace(Head(s)) THEN 0 ELSE Width(Head(s)))
         + NonSpaceWidth(Tail(s))

\* The loop over pdf.pages inside try/except: the text of the pages read
\* before a page raises, each followed by a newline; pages without text
\* are skipped.
RECURSIVE NativeLoop(_, _, _)
NativeLoop(pages, i, text) ==
    IF i > Len(pages) THEN text
    ELSE LET t == pages[i].native
         IN  IF t = Raised THEN text
             ELSE IF Truthy(t) THEN NativeLoop(pages, i + 1, text \o t.v \o <<"\n">>)
             ELSE NativeLoop(pages, i + 1, text)

\* The loop over the page images: [k, v, ocr] where ocr lists the pages
\* image_to_string was called on, in call order.
RECURSIVE OcrLoop(_, _, _, _)
OcrLoop(pages, i, text, calls) ==
    IF i > Len(pages) THEN [k |-> "str", v |-> text, ocr |-> calls]
    ELSE IF pages[i].ocr = Raised
         THEN [k |-> "raise", v |-> <<>>, ocr |-> Append(calls, i)]
         ELSE OcrLoop(pages, i + 1, text \o pages[i].ocr.v \o <<"\n">>, Append(calls, i))

\* len(text.strip()): blanks inside the text count.
StrippedLen(text) == WidthOf(Strip(text))

\* extract_text with the threshold applied to the characters that are not
\* whitespace.
extract_text_nonspace(doc) ==
    LET text == NativeLoop(doc.pages, 1, <<>>)
    IN  IF NonSpaceWidth(text) < OcrThreshold
        THEN IF doc.render = "raise"
             THEN [k |-> "raise", v |-> <<>>, ocr |-> <<>>]
             ELSE OcrLoop(doc.pages, 1, text, <<>>)
        ELSE [k |-> "str", v |-> text, ocr |-> <<>>]

\* extract_text of extract_multivendor_pdf.py, extract_pdf_data.py and
\* extract_invode_terminal.py.
extract_text(doc) ==
    LET text == NativeLoop(doc.pages, 1, <<>>)
    IN  IF StrippedLen(text) < OcrThreshold
        THEN IF doc.render = "raise"
             THEN [k |-> "raise", v |-> <<>>, ocr |-> <<>>]
             ELSE OcrLoop(doc.pages, 1, text, <<>>)
        ELSE [k |-> "str", v |-> text, ocr |-> <<>>]

\* extract_text of extract_amazon_invoice.py: no try/except, no OCR.
extract_text_amazon(doc) ==
    IF \E i \in 1..Len(doc.pages) : doc.pages[i].native = Raised
    THEN [k |-> "raise", v |-> <<>>, ocr |-> <<>>]
    ELSE [k |-> "str", v |-> NativeLoop(doc.pages, 1, <<>>), ocr |-> <<>>]

---------------------------------------------------------------------------
(* SpecAcquire: extract_text applied to every document within the bounds.  *)
(* The OCR output of page p is the single token OcrTok(p), so that the     *)
(* order of the outputs shows in the text.                                 *)

BodyToks == {"w100", "w99", "s100"}

OcrTok(p) ==
    CASE p = 1 -> "ocr1"
      [] p = 2 -> "ocr2"
      [] p = 3 -> "ocr3"
      [] OTHER -> "ocr4"

NativeOutcomes ==
    {NoneV, Raised} \cup {StrV(t) : t \in SeqsUpTo(BodyToks, MaxPageToks)}

AcquireDocs ==
    UNION {
        {[name |-> "a.pdf",
          render |-> r,
          pages |-> [p \in 1..n |->
                        [native |-> nat[p],
                         ocr |-> IF ok[p] THEN StrV(<<OcrTok(p)>>) ELSE Raised]]] :
            nat \in [1..n -> NativeOutcomes], ok \in [1..n -> BOOLEAN],
            r \in {"ok", "raise"}} :
        n \in 1..MaxPages}

InitAcquire ==
    /\ call \in [fn : {"extract_text"}, doc : AcquireDocs]
    /\ ret = Pending
    /\ Idle

CallExtractText ==
    /\ call.fn = "extract_text"
    /\ ret = Pending
    /\ ret' = extract_text(call.doc)
    /\ UNCHANGED <<call, pipeVars>>

NextAcquire == CallExtractText

SpecAcquire == InitAcquire /\ [][NextAcquire]_vars

\* The pages whose native extraction raises.
FailingPages(doc) == {i \in 1..Len(doc.pages) : doc.pages[i].native = Raised}

NativeFails(doc) == FailingPages(doc) # {}

\* The pages read before the first failure.
PagesRead(doc) ==
    IF NativeFails(doc) THEN MinOf(FailingPages(doc)) - 1 ELSE Len(doc.pages)

\* The native text: the pages read, last to first, each with its newline.
RECURSIVE NativeUpTo(_, _)
NativeUpTo(doc, n) ==
    IF n = 0 THEN <<>>
    ELSE NativeUpTo(doc, n - 1)
         \o (IF doc.pages[n].native.k = "str" /\ doc.pages[n].native.v # <<>>
             THEN doc.pages[n].native.v \o <<"\n">> ELSE <<>>)

NativeTextOf(doc) == NativeUpTo(doc, PagesRead(doc))

\* OCR neither fails to render nor to recognise any page.
OcrHealthy(doc) ==
    doc.render = "ok" /\ \A i \in 1..Len(doc.pages) : doc.pages[i].ocr # Raised

AllPages(doc) == [i \in 1..Len(doc.pages) |-> i]

\* The OCR outputs of all pages in page order, each with its newline.
OcrTextOf(doc) ==
    [i \in 1..(2 * Len(doc.pages)) |->
        IF i % 2 = 1 THEN doc.pages[(i + 1) \div 2].ocr.v[1] ELSE "\n"]

\* C5 as stated: with OCR working, a document whose native text has fewer
\* than 200 characters that are not whitespace, or whose native extraction
\* fails, has OCR run once on each page in page order and the outputs
\* appended in that order; any other document has no OCR call.
C5_OcrBelowNonWhitespaceThreshold ==
    (call.fn = "extract_text" /\ ret # Pending /\ OcrHealthy(call.doc)) =>
        IF NonSpaceWidth(NativeTextOf(call.doc)) < OcrThreshold \/ NativeFails(call.doc)
        THEN /\ ret.ocr = AllPages(call.doc)
             /\ ret.v = NativeTextOf(call.doc) \o OcrTextOf(call.doc)
        ELSE ret.ocr = <<>> /\ ret.v = NativeTextOf(call.doc)

\* The length of a text without its leading and trailing whitespace.
TrimmedLength(text) ==
    LET lead == WidthOf(SubSeq(text, 1, SkipSpaces(text, 1) - 1))
        trail == WidthOf(text) - WidthOf(RStrip(text))
    IN  IF lead = WidthOf(text) THEN 0 ELSE WidthOf(text) - lead - trail

\* C5 amended: with OCR working, a document whose native text (the pages
\* read before any failure, each followed by a newline), stripped of
\* leading and trailing whitespace, is shorter than 200 characters, inner
\* whitespace counted, has OCR run once on each page in page order and the
\* outputs appended in that order; any other document has no OCR call.
C5_OcrBelowStrippedLength ==
    (call.fn = "extract_text" /\ ret # Pending /\ OcrHealthy(call.doc)) =>
        IF TrimmedLength(NativeTextOf(call.doc)) < OcrThreshold
        THEN /\ ret.ocr = AllPages(call.doc)
             /\ ret.v = NativeTextOf(call.doc) \o OcrTextOf(call.doc)
        ELSE ret.ocr = <<>> /\ ret.v = NativeTextOf(call.doc)

\* A two-page document with native text below the threshold on which OCR
\* ran on page 1 and then on page 2, the outputs appended in that order.
C5_Witness ==
    /\ call.fn = "extract_text" /\ ret # Pending
    /\ Len(call.doc.pages) = 2
    /\ NativeTextOf(call.doc) # <<>>
    /\ ret.ocr = <<1, 2>>
    /\ ret.v = NativeTextOf(call.doc) \o <<"ocr1", "\n", "ocr2", "\n">>

---------------------------------------------------------------------------
(* Seller block and seller fallbacks *)

\* The tokens at which the lookahead that ends the Sold By block matches:
\* PAN, GSTIN, Invoice No, Order Id, Billing Address, Shipping Address in
\* extract_multivendor_pdf.py; PAN No, GST Registration No, Invoice Number,
\* Order Number, Billing Address, Shipping Address in the other scripts.
SoldByStops(script) ==
    IF script = "multivendor"
    THEN {"GSTIN", "Order ID", "Billing Address:"}
    ELSE {"Order Number", "Billing Address:"}

\* A label, blanks, a lazy group and (with trim) blanks up to the first
\* stop token: [found, v] with v the group.
LazyUntil(text, label, stops, trim) ==
    LET i == FirstOf(text, {label}, 1)
        j == IF i = 0 THEN 0 ELSE SkipSpaces(text, i + 1)
        t == IF i = 0 THEN 0 ELSE FirstOf(text, stops, j)
    IN  IF t = 0 THEN [found |-> FALSE, v |-> <<>>]
        ELSE [found |-> TRUE,
              v |-> IF trim THEN RStrip(SubSeq(text, j, t - 1)) ELSE SubSeq(text, j, t - 1)]

\* s.split(sep): the parts of s between the separator tokens.
RECURSIVE SplitOn(_, _, _)
SplitOn(s, sep, cur) ==
    IF s = <<>> THEN <<cur>>
    ELSE IF Head(s) = sep
         THEN <<cur>> \o SplitOn(Tail(s), sep, <<>>)
         ELSE SplitOn(Tail(s), sep, Append(cur, Head(s)))

\* [p.strip() for p in parts if p.strip()]
RECURSIVE StripParts(_)
StripParts(parts) ==
    IF parts = <<>> THEN <<>>
    ELSE IF Strip(Head(parts)) = <<>> THEN StripParts(Tail(parts))
         ELSE <<Strip(Head(parts))>> \o StripParts(Tail(parts))

\* sep.join(parts)
RECURSIVE Join(_, _)
Join(parts, sep) ==
    IF parts = <<>> THEN <<>>
    ELSE IF Len(parts) = 1 THEN Head(parts)
         ELSE Head(parts) \o sep \o Join(Tail(parts), sep)

\* The separator that joins the lines of the seller address.
AddressSep(script) == IF script = "multivendor" THEN <<"\n">> ELSE <<" ">>

\* re.sub of a run of whitespace by one blank.
RECURSIVE CollapseSpaces(_)
CollapseSpaces(s) ==
    IF s = <<>> THEN <<>>
    ELSE IF IsSpace(Head(s))
         THEN <<" ">> \o CollapseSpaces(SubSeq(s, SkipSpaces(s, 1), Len(s)))
         ELSE <<Head(s)>> \o CollapseSpaces(Tail(s))

\* parse_sold_by_block: [info, name, address].
parse_sold_by_block(text, script) ==
    LET m == LazyUntil(text, "Sold By", SoldByStops(script), TRUE)
        block == Strip(m.v)
        lines == StripParts(SplitOn(block, "\n", <<>>))
        info == IF script = "amazon" THEN StrV(Strip(CollapseSpaces(block))) ELSE StrV(block)
    IN  IF ~m.found THEN [info |-> NoneV, name |-> NoneV, address |-> NoneV]
        ELSE IF lines = <<>> THEN [info |-> info, name |-> NoneV, address |-> NoneV]
        ELSE [info |-> info,
              name |-> StrV(lines[1]),
              address |-> IF Len(lines) > 1
                          THEN StrV(Join(Tail(lines), AddressSep(script)))
                          ELSE NoneV]

\* The tokens that begin with an upper-case letter followed by at least
\* three upper-case letters, blanks or commas: a line that starts with one
\* matches the all-caps pattern of extract_seller_flexible.
CapsToks == {"ACME", "CGST", "SGST", "IGST", "GSTIN", "FSSAI", "FLIPKART",
             "TOTAL", "TAX INVOICE"}

\* The separator of the billing address parts: a newline in
\* extract_multivendor_pdf.py, a comma in extract_invode_terminal.py.
BillingSep(script) == IF script = "multivendor" THEN "\n" ELSE ","

PartsJoin(script) == IF script = "multivendor" THEN <<"\n">> ELSE <<",", " ">>

\* The third fallback: the first line of the text that matches the
\* all-caps pattern, cut at its commas.
CapsLineSeller(text, script) ==
    LET lines == StripParts(SplitOn(text, "\n", <<>>))
        hits == {i \in 1..Len(lines) : lines[i][1] \in CapsToks}
    IN  IF hits = {} THEN [info |-> NoneV, name |-> NoneV, address |-> NoneV]
        ELSE LET line == lines[MinOf(hits)]
                 parts == StripParts(SplitOn(line, ",", <<>>))
             IN  [info |-> StrV(line),
                  name |-> IF parts # <<>> THEN StrV(parts[1]) ELSE StrV(line),
                  address |-> IF Len(parts) > 1
                              THEN StrV(Join(Tail(parts), PartsJoin(script)))
                              ELSE NoneV]

\* extract_seller_flexible with the all-caps line tried before the billing
\* address.
extract_seller_caps_first(text, billing_address, script) ==
    LET sold == parse_sold_by_block(text, script)
        parts == IF Truthy(billing_address)
                 THEN StripParts(SplitOn(billing_address.v, BillingSep(script), <<>>))
                 ELSE <<>>
    IN  IF Truthy(sold.name) THEN sold
        ELSE IF CapsLineSeller(text, script).name # NoneV
             THEN CapsLineSeller(text, script)
        ELSE IF parts # <<>>
             THEN [info |-> StrV(parts[1]),
                   name |-> StrV(parts[1]),
                   address |-> IF Len(parts) > 1
                               THEN StrV(Join(Tail(parts), PartsJoin(script)))
                               ELSE NoneV]
        ELSE CapsLineSeller(text, script)

\* extract_seller_flexible: the Sold By block, else the first part of the
\* billing address, else the first all-caps line.
extract_seller_flexible(text, billing_address, script) ==
    LET sold == parse_sold_by_block(text, script)
        parts == IF Truthy(billing_address)
                 THEN StripParts(SplitOn(billing_address.v, BillingSep(script), <<>>))
                 ELSE <<>>
    IN  IF Truthy(sold.name) THEN sold
        ELSE IF parts # <<>>
             THEN [info |-> StrV(parts[1]),
                   name |-> StrV(parts[1]),
                   address |-> IF Len(parts) > 1
                               THEN StrV(Join(Tail(parts), PartsJoin(script)))
                               ELSE NoneV]
        ELSE CapsLineSeller(text, script)

---------------------------------------------------------------------------
(* Flat fields, totals and the vendor strategies.                          *)
(*                                                                         *)
(* Of the flat fields of a record the model carries order_number and       *)
(* billing_address (and, for flipkart, seller_name); invoice_number, the   *)
(* dates, seller_pan, seller_gst, shipping_address, place_of_supply, the   *)
(* state codes and amount_in_words are set by the same calls with their    *)
(* own patterns.  In the texts of the model no digit or amount token is    *)
(* directly followed by an amount token.                                   *)

\* clean_address of extract_multivendor_pdf.py: a run of two or more
\* whitespace characters becomes a newline, the result is stripped.  (No
\* token of the model holds the footnote mark that the first re.sub cuts.)
RECURSIVE CollapseWide(_)
CollapseWide(s) ==
    IF s = <<>> THEN <<>>
    ELSE IF IsSpace(Head(s))
         THEN LET e == SkipSpaces(s, 1)
              IN  (IF WidthOf(SubSeq(s, 1, e - 1)) >= 2 THEN <<"\n">> ELSE <<Head(s)>>)
                  \o CollapseWide(SubSeq(s, e, Len(s)))
         ELSE <<Head(s)>> \o CollapseWide(Tail(s))

\* re.sub of the label and the rest of its line by nothing.
RECURSIVE CutLines(_, _, _)
CutLines(s, label, cutting) ==
    IF s = <<>> THEN <<>>
    ELSE IF Head(s) = "\n" THEN <<"\n">> \o CutLines(Tail(s), label, FALSE)
    ELSE IF cutting \/ Head(s) = label THEN CutLines(Tail(s), label, TRUE)
    ELSE <<Head(s)>> \o CutLines(Tail(s), label, FALSE)

\* clean_address.  extract_amazon_invoice.py first cuts what follows Sold By
\* on its line; the other scripts collapse each run of whitespace.
clean_address(val, script) ==
    IF ~Truthy(val) THEN NoneV
    ELSE IF script = "multivendor" THEN StrV(Strip(CollapseWide(val.v)))
    ELSE IF script = "amazon"
         THEN StrV(Strip(CollapseSpaces(CutLines(val.v, "Sold By", FALSE))))
    ELSE StrV(Strip(CollapseSpaces(val.v)))

\* re.sub of the currency sign, commas and whitespace by nothing; the token
\* "rupee" stands for the currency sign.
StripSymbols(s) == SelectSeq(s, LAMBDA t : ~IsSpace(t) /\ t \notin {"rupee", ","})

\* normalize_number of extract_multivendor_pdf.py, extract_pdf_data.py and
\* extract_invode_terminal.py.
normalize_number(val) ==
    IF ~Truthy(val) THEN NoneV
    ELSE StrV(StripSymbols(val.v))

\* normalize_number of extract_amazon_invoice.py: None when nothing is left.
normalize_number_amazon(val) ==
    IF ~Truthy(val) THEN NoneV
    ELSE IF StripSymbols(val.v) = <<>> THEN NoneV
    ELSE StrV(StripSymbols(val.v))

\* The labels of the first pattern of extract_total_amount.
TotalLabels == {"Invoice Value", "Grand Total", "TOTAL Amount"}

\* An amount with a word boundary on both sides.
IsBoundedAmount(text, i) ==
    /\ IsAmount(text[i])
    /\ i = 1 \/ ~IsWordTok(text[i - 1])
    /\ i = Len(text) \/ ~IsWordTok(text[i + 1])

\* extract_total_amount with the last bounded amount tried first.
extract_total_amount_last(text) ==
    LET labelled == {i \in 1..Len(text) :
                        /\ text[i] \in TotalLabels
                        /\ GapEnd(text, i + 1) <= Len(text)
                        /\ IsAmount(text[GapEnd(text, i + 1)])
                        /\ WidthOf(SubSeq(text, i + 1, GapEnd(text, i + 1) - 1)) <= 20}
        nums == {i \in 1..Len(text) : IsBoundedAmount(text, i)}
    IN  IF nums # {} THEN StrV(<<text[MaxOf(nums)]>>)
        ELSE IF labelled # {}
        THEN normalize_number(StrV(<<text[GapEnd(text, MinOf(labelled) + 1)]>>))
        ELSE NoneV

\* extract_total_amount: the amount that follows the first total label
\* within 20 characters without a digit, else the last bounded amount.
extract_total_amount(text) ==
    LET labelled == {i \in 1..Len(text) :
                        /\ text[i] \in TotalLabels
                        /\ GapEnd(text, i + 1) <= Len(text)
                        /\ IsAmount(text[GapEnd(text, i + 1)])
                        /\ WidthOf(SubSeq(text, i + 1, GapEnd(text, i + 1) - 1)) <= 20}
        nums == {i \in 1..Len(text) : IsBoundedAmount(text, i)}
    IN  IF labelled # {}
        THEN normalize_number(StrV(<<text[GapEnd(text, MinOf(labelled) + 1)]>>))
        ELSE IF nums # {} THEN StrV(<<text[MaxOf(nums)]>>)
        ELSE NoneV

\* extract_tax of extract_invode_terminal.py: the sum of every tax amount.
extract_tax(text) ==
    LET taxes == TaxFindall(text, 1)
    IN  IF taxes = <<>> THEN NoneV ELSE NumV(SumSeq(taxes))

IsNumber(t) == IsAmount(t) \/ IsDigits(t)

\* The matches of the TOTAL row pattern: TOTAL, blanks, a number, at least
\* one blank, a number; the index of each match's first number.
TotalRows(text) ==
    {j \in 1..Len(text) :
        /\ IsNumber(text[j])
        /\ \E i \in 1..(j - 1) : text[i] = "TOTAL" /\ SkipSpaces(text, i + 1) = j
        /\ j + 1 <= Len(text) /\ IsSpace(text[j + 1])
        /\ SkipSpaces(text, j + 1) <= Len(text)
        /\ IsNumber(text[SkipSpaces(text, j + 1)])}

\* The last number that directly follows the label, or None.
LastLabelled(text, label) ==
    LET hits == {i \in 1..Len(text) :
                    /\ text[i] = label
                    /\ SkipSpaces(text, i + 1) <= Len(text)
                    /\ IsNumber(text[SkipSpaces(text, i + 1)])}
    IN  IF hits = {} THEN NoneV ELSE StrV(<<text[SkipSpaces(text, MaxOf(hits) + 1)]>>)

\* extract_tax_and_total of extract_pdf_data.py and extract_amazon_invoice.py:
\* [tax, total] from the last TOTAL row, total else from Invoice Value; the
\* amazon script also tries Total Tax Amount and TOTAL Amount.
extract_tax_and_total(text, script) ==
    LET rows == TotalRows(text)
        j == MaxOf(rows)
        tax0 == IF rows = {} THEN NoneV ELSE StrV(<<text[j]>>)
        total0 == IF rows = {} THEN NoneV ELSE StrV(<<text[SkipSpaces(text, j + 1)]>>)
        tax1 == IF script = "amazon" /\ tax0 = NoneV
                THEN LastLabelled(text, "Total Tax Amount") ELSE tax0
        total1 == IF script = "amazon" /\ total0 = NoneV
                  THEN LastLabelled(text, "TOTAL Amount") ELSE total0
        total2 == IF ~Truthy(total1) THEN LastLabelled(text, "Invoice Value") ELSE total1
    IN  [tax |-> normalize_number(tax1), total |-> normalize_number(total2)]

BillingRule(stops) == [label |-> "Billing Address:", kind |-> "until", stops |-> stops]

\* extract_amazon
extract_amazon(text, row) ==
    LET r1 == SetKey(row, "order_number",
                     extract_field(text, <<[label |-> "Order Number", kind |-> "digits"]>>))
        r2 == SetKey(r1, "billing_address",
                     clean_address(
                         extract_field(text, <<BillingRule({"Invoice Value", "TAX INVOICE",
                                                            "Order ID", "Order Number"})>>),
                         "multivendor"))
        r3 == AmazonTax(text, r2)
    IN  SetKey(r3, "total_amount", extract_total_amount(text))

\* extract_flipkart
extract_flipkart(text, row) ==
    LET r1 == SetKey(row, "order_number",
                     extract_field(text, <<[label |-> "Order ID", kind |-> "od"]>>))
        r2 == SetKey(r1, "seller_name",
                     extract_field(text, <<[label |-> "Sold By", kind |-> "until",
                                            stops |-> {"GSTIN", "Invoice Value",
                                                       "TAX INVOICE"}]>>))
        r3 == SetKey(r2, "billing_address",
                     clean_address(
                         extract_field(text, <<BillingRule({"Invoice Value", "TAX INVOICE"})>>),
                         "multivendor"))
        r4 == FlipkartTax(text, r3)
    IN  SetKey(r4, "total_amount", extract_total_amount(text))

\* row.get(key)
GetOrNone(row, key) == IF HasKey(row, key) THEN Get(row, key) ELSE NoneV

\* row["seller_info"], row["seller_name"], row["seller_address"] = ...
SetSeller(row, seller) ==
    SetKey(SetKey(SetKey(row, "seller_info", seller.info),
                  "seller_name", seller.name),
           "seller_address", seller.address)

---------------------------------------------------------------------------
(* The scripts: folder loop, row building, alignment and output.           *)

Scripts == {"multivendor", "pdf_data", "terminal", "amazon", "ocr"}

\* The scripts that read the template before the loop.
TemplateFirst == {"multivendor", "pdf_data", "terminal"}

\* pdf.lower().endswith(".pdf")
LowerName(name) == IF name = "B.PDF" THEN "b.pdf" ELSE name

IsPdf(name) == LowerName(name) \in {"a.pdf", "b.pdf"}

\* FIELD_PATTERNS of extract_pdf_data.py, extract_invode_terminal.py and
\* extract_amazon_invoice.py, for the fields the model carries.
PatternFields(text, row, s) ==
    LET r1 == SetKey(row, "order_number",
                     extract_field(text, <<[label |-> "Order Number", kind |-> "digits"]>>))
        b == IF s = "amazon"
             THEN extract_field_amazon(text, <<BillingRule({"Order Number"})>>)
             ELSE extract_field(text, <<BillingRule({"Order Number"})>>)
    IN  SetKey(r1, "billing_address", clean_address(b, s))

\* WithSeller with the seller_name of the vendor strategy kept when it is
\* set.
WithSellerKept(text, row, s) ==
    IF Truthy(GetOrNone(row, "seller_name"))
    THEN SetKey(SetSeller(row, extract_seller_flexible(
                                   text, GetOrNone(row, "billing_address"), s)),
                "seller_name", Get(row, "seller_name"))
    ELSE SetSeller(row, extract_seller_flexible(text, GetOrNone(row, "billing_address"), s))

\* The seller fields of a row, from the text and the row's billing address.
WithSeller(text, row, s) ==
    SetSeller(row, extract_seller_flexible(text, GetOrNone(row, "billing_address"), s))

\* row["total_tax"], row["total_amount"] = tax, total
WithTaxTotal(row, tt) ==
    SetKey(SetKey(row, "total_tax", tt.tax), "total_amount", tt.total)

\* The vendor strategy applied to the row.
ByVendor(vendor, text, row) ==
    CASE vendor = "amazon" -> extract_amazon(text, row)
      [] vendor = "flipkart" -> extract_flipkart(text, row)
      [] OTHER -> row

\* One pass of the loop body of extract_multivendor_pdf.py on acquired text.
body_multivendor(text, name, columns) ==
    IF detect_vendor(text) = "swiggy"
    THEN extract_swiggy(text, name, columns)
    ELSE <<WithSeller(text,
                      ByVendor(detect_vendor(text), text,
                               SetKey(NoneRow(columns), "Field", StrV(<<name>>))),
                      "multivendor")>>

\* extract_pdf_data.py: a blank text is skipped.
body_pdf_data(text, name, columns) ==
    IF Strip(text) = <<>> THEN <<>>
    ELSE LET row == SetKey(NoneRow(columns), "Source File", StrV(<<name>>))
             r1 == SetSeller(row, parse_sold_by_block(text, "pdf_data"))
             r2 == PatternFields(text, r1, "pdf_data")
         IN  <<WithTaxTotal(r2, extract_tax_and_total(text, "pdf_data"))>>

\* extract_invode_terminal.py
body_terminal(text, name, columns) ==
    LET row == SetKey(NoneRow(columns), "Field", StrV(<<name>>))
        r1 == PatternFields(text, row, "terminal")
        r2 == WithSeller(text, r1, "terminal")
    IN  <<SetKey(SetKey(r2, "total_tax", extract_tax(text)),
                 "total_amount", extract_total_amount(text))>>

\* extract_amazon_invoice.py: a blank text is skipped; the row starts with
\* the file name only.
body_amazon(text, name) ==
    IF Strip(text) = <<>> THEN <<>>
    ELSE LET row == <<[key |-> "Source File", val |-> StrV(<<name>>)]>>
             r1 == SetSeller(row, parse_sold_by_block(text, "amazon"))
             r2 == PatternFields(text, r1, "amazon")
         IN  <<WithTaxTotal(r2, extract_tax_and_total(text, "amazon"))>>

\* text.replace of the em dash and of the en dash by a hyphen; the tokens
\* "emdash" and "endash" stand for the two characters.
ReplaceDashes(text) ==
    [i \in 1..Len(text) |-> IF text[i] \in {"emdash", "endash"} THEN "-" ELSE text[i]]

\* A replacement that turns the em dash into an en dash and the en dash
\* into a hyphen.
ChainDashes(text) ==
    [i \in 1..Len(text) |->
        CASE text[i] = "emdash" -> "endash"
          [] text[i] = "endash" -> "-"
          [] OTHER -> text[i]]

normalize_chained(text) == CollapseSpaces(ChainDashes(text))

\* normalize of extract_invoice_ocr.py: the dashes replaced, then each run
\* of whitespace replaced by one blank.
normalize(text) == CollapseSpaces(ReplaceDashes(text))

\* clean_text of extract_invoice_ocr_shape_based_FIXED.py: the same, then
\* stripped.
clean_text(text) == Strip(CollapseSpaces(ReplaceDashes(text)))

\* The text extract_invoice_ocr.py reads: the OCR output of every page, one
\* after the other; a failure of the rendering or of a page raises.
RECURSIVE OcrOnly(_, _, _)
OcrOnly(pages, i, text) ==
    IF i > Len(pages) THEN [k |-> "str", v |-> text]
    ELSE IF pages[i].ocr = Raised THEN [k |-> "raise", v |-> <<>>]
    ELSE OcrOnly(pages, i + 1, text \o pages[i].ocr.v)

\* extract_invoice_ocr.py: no token of the model spells an invoice number,
\* an order number or a GST number of the shapes it searches, so those
\* searches return None; Invoice Value is the first bounded amount.
body_ocr(text, name) ==
    LET nums == {i \in 1..Len(text) : IsBoundedAmount(text, i)}
    IN  << <<[key |-> "Source File", val |-> StrV(<<name>>)],
             [key |-> "Invoice Number", val |-> NoneV],
             [key |-> "Order Number", val |-> NoneV],
             [key |-> "GST Number", val |-> NoneV],
             [key |-> "Invoice Value",
              val |-> IF nums = {} THEN NoneV ELSE StrV(<<text[MinOf(nums)]>>)]>> >>

\* The text a script acquires from a document: [k, v], k "raise" when the
\* acquisition raises.
Acquire(s, doc) ==
    CASE s = "amazon" -> extract_text_amazon(doc)
      [] s = "ocr" -> IF doc.render = "raise"
                      THEN [k |-> "raise", v |-> <<>>]
                      ELSE LET t == OcrOnly(doc.pages, 1, <<>>)
                           IN  [k |-> t.k, v |-> normalize(t.v)]
      [] OTHER -> extract_text(doc)

\* The rows one document adds.
Body(s, text, name, columns) ==
    CASE s = "multivendor" -> body_multivendor(text, name, columns)
      [] s = "pdf_data" -> body_pdf_data(text, name, columns)
      [] s = "terminal" -> body_terminal(text, name, columns)
      [] s = "amazon" -> body_amazon(text, name)
      [] OTHER -> body_ocr(text, name)

\* pd.DataFrame(rows).columns: the keys of the rows, in order of first
\* appearance.
RECURSIVE KeysInto(_, _)
KeysInto(row, cols) ==
    IF row = <<>> THEN cols
    ELSE KeysInto(Tail(row),
                  IF \E k \in 1..Len(cols) : cols[k] = Head(row).key
                  THEN cols ELSE Append(cols, Head(row).key))

RECURSIVE FrameColumns(_, _)
FrameColumns(rows, cols) ==
    IF rows = <<>> THEN cols
    ELSE FrameColumns(Tail(rows), KeysInto(Head(rows), cols))

\* pd.DataFrame(rows): a key a row lacks is an empty cell.
DataFrame(rows) ==
    LET cols == FrameColumns(rows, <<>>)
    IN  [columns |-> cols,
         cells |-> [r \in 1..Len(rows) |->
                       [c \in 1..Len(cols) |-> GetOrNone(rows[r], cols[c])]]]

\* A reindex that keeps the columns of the frame.
reindex_keep(df, columns) == df

\* df.reindex(columns=columns): the columns of the template in its order; a
\* column the frame lacks is empty, a column the template lacks is dropped.
reindex(df, columns) ==
    [columns |-> columns,
     cells |-> [r \in 1..Len(df.cells) |->
                   [c \in 1..Len(columns) |->
                       IF \E k \in 1..Len(df.columns) : df.columns[k] = columns[c]
                       THEN df.cells[r][CHOOSE k \in 1..Len(df.columns) :
                                            df.columns[k] = columns[c]]
                       ELSE NoneV]]]

\* The table to_excel writes.
Written(df) == [written |-> TRUE, columns |-> df.columns, cells |-> df.cells]

---------------------------------------------------------------------------
(* Spec: a run of one script over a folder.                                *)
(*                                                                         *)
(* template.columns is the schema of the run; template.state tells what   *)
(* read_excel does: "ok" (it returns the columns), "missing" (it raises    *)
(* FileNotFoundError) or "corrupt" (it raises another exception).          *)

ScanText == <<"FLIPKART", " ", "Order ID", " ", "OD123", "\n", "IGST", " ", "25.00">>

AmazonText ==
    <<"w250", "\n", "Amazon", "\n", "Order Number", " ", "123", "\n",
      "CGST", " ", "10.00", "\n", "SGST", " ", "10.00", "\n",
      "Invoice Value", " ", "220.00">>

FlipkartText ==
    <<"w250", "\n", "FLIPKART", "\n", "Sold By", " ", "ACME", "\n", "x", "\n",
      "GSTIN", "\n", "Billing Address:", " ", "x", " ", " ", "x", " ",
      "Order Number", " ", "123", "\n", "TOTAL", " ", "25.00", " ", "220.00">>

SwiggyText ==
    <<"w250", "\n", "Swiggy", " ", "TAX INVOICE", " ", "Order ID", " ", "123", " ",
      "Invoice Value", " ", "220", " ", "Seller Name", " ", "ACME", "\n",
      "TAX INVOICE", " ", "Invoice Value", " ", "0", "\n",
      "TAX INVOICE", " ", "Invoice Value", " ", "123">>

\* A flipkart text whose Sold By label is followed by Invoice Value only:
\* no terminator of parse_sold_by_block, no billing address, no line in
\* capitals.
BareFlipkartText ==
    <<"w250", "\n", "Sold By", " ", "ACME", " ", "Invoice Value", " ", "220.00", " ",
      "FLIPKART">>

Page(native, ocr) == [native |-> native, ocr |-> ocr]

\* The documents of the folder: four with a text layer, one swiggy file
\* without an invoice value, scanned files whose OCR works, returns blanks
\* or raises, a file that cannot be rendered and one whose text layer
\* cannot be read.
Docs ==
    {[render |-> "ok", pages |-> <<Page(StrV(AmazonText), StrV(<<"ocr1">>))>>],
     [render |-> "ok", pages |-> <<Page(StrV(FlipkartText), StrV(<<"ocr1">>))>>],
     [render |-> "ok", pages |-> <<Page(StrV(SwiggyText), StrV(<<"ocr1">>))>>],
     [render |-> "ok", pages |-> <<Page(StrV(BareFlipkartText), StrV(<<"ocr1">>))>>],
     [render |-> "ok", pages |-> <<Page(StrV(<<"w250", " ", "Swiggy">>), StrV(<<"ocr1">>))>>],
     [render |-> "ok", pages |-> <<Page(NoneV, StrV(ScanText))>>],
     [render |-> "ok", pages |-> <<Page(NoneV, StrV(<<" ">>))>>],
     [render |-> "ok", pages |-> <<Page(NoneV, Raised)>>],
     [render |-> "raise", pages |-> <<Page(NoneV, StrV(<<"ocr1">>))>>],
     [render |-> "ok", pages |-> <<Page(Raised, StrV(ScanText))>>]}

FileNames == {"a.pdf", "B.PDF", "n.txt"}

Schemas ==
    {<<"Field", "order_number", "seller_name", "total_tax", "hsn">>,
     <<"total_amount", "Source File">>,
     <<"order_number">>}

Templates == [state : {"ok", "missing", "corrupt"}, columns : Schemas]

\* The listings: up to MaxDocs entries with different names.
Listings ==
    {l \in SeqsUpTo([name : FileNames, doc : Docs], MaxDocs) :
        \A i, j \in 1..Len(l) : i # j => l[i].name # l[j].name}

Init ==
    /\ call = [fn |-> "main"]
    /\ ret = Pending
    /\ prog \in Scripts
    /\ listing \in Listings
    /\ template \in Templates
    /\ pc = "start"
    /\ idx = 1
    /\ TEMPLATE_COLUMNS = <<>>
    /\ final_rows = <<>>
    /\ origin = <<>>
    /\ output = NoOutput
    /\ error = "none"
    /\ previous = NoPrevious

Crash(stmt) ==
    /\ pc' = "crashed"
    /\ error' = stmt

\* The statements before the loop: read_excel in the scripts that read the
\* template first, the test for pdf files in extract_amazon_invoice.py.
Begin ==
    /\ pc = "start"
    /\ IF prog \in TemplateFirst
       THEN IF template.state = "ok"
            THEN /\ TEMPLATE_COLUMNS' = template.columns
                 /\ pc' = "loop"
                 /\ UNCHANGED error
            ELSE /\ Crash("read_excel")
                 /\ UNCHANGED TEMPLATE_COLUMNS
       ELSE IF prog = "amazon" /\ ~\E i \in 1..Len(listing) : IsPdf(listing[i].name)
            THEN /\ Crash("no pdf files")
                 /\ UNCHANGED TEMPLATE_COLUMNS
            ELSE /\ pc' = "loop"
                 /\ UNCHANGED <<error, TEMPLATE_COLUMNS>>
    /\ UNCHANGED <<call, ret, prog, listing, template, idx, final_rows, origin, output,
                   previous>>

\* An entry that is not a pdf file.
SkipEntry ==
    /\ pc = "loop"
    /\ idx <= Len(listing)
    /\ ~IsPdf(listing[idx].name)
    /\ idx' = idx + 1
    /\ UNCHANGED <<call, ret, prog, listing, template, pc, TEMPLATE_COLUMNS,
                   final_rows, origin, output, error, previous>>

\* Collect with final_rows = rows in place of final_rows.extend(rows): the
\* rows of the latest document replace the rows collected.
CollectLatest(rows) ==
    /\ final_rows' = rows
    /\ origin' = [r \in 1..Len(rows) |-> idx]
    /\ idx' = idx + 1
    /\ UNCHANGED <<pc, error>>

\* The rows of a document are added to the rows collected.
Collect(rows) ==
    /\ final_rows' = final_rows \o rows
    /\ origin' = origin \o [r \in 1..Len(rows) |-> idx]
    /\ idx' = idx + 1
    /\ UNCHANGED <<pc, error>>

\* The loop body on the outcome of the acquisition.
Extract(t) ==
    IF t.k = "raise"
    THEN /\ Crash("extract_text")
         /\ UNCHANGED <<idx, final_rows, origin>>
    ELSE Collect(Body(prog, t.v, listing[idx].name, TEMPLATE_COLUMNS))

\* One pass of the loop on a pdf file.
ProcessPdf ==
    /\ pc = "loop"
    /\ idx <= Len(listing)
    /\ IsPdf(listing[idx].name)
    /\ Extract(Acquire(prog, listing[idx].doc))
    /\ UNCHANGED <<call, ret, prog, listing, template, TEMPLATE_COLUMNS, output,
                   previous>>

\* The alignment of the frame and the writing of the table.
Emit(df) ==
    CASE prog \in TemplateFirst ->
           /\ output' = Written(reindex(df, TEMPLATE_COLUMNS))
           /\ pc' = "written"
           /\ UNCHANGED error
      [] prog = "amazon" ->
           IF final_rows = <<>>
           THEN /\ Crash("no rows")
                /\ UNCHANGED output
           ELSE IF template.state = "corrupt"
                THEN /\ Crash("read_excel")
                     /\ UNCHANGED output
                ELSE /\ output' = IF template.state = "ok"
                                  THEN Written(reindex(df, template.columns))
                                  ELSE Written(df)
                     /\ pc' = "written"
                     /\ UNCHANGED error
      [] OTHER ->
           /\ output' = IF template.state = "ok"
                        THEN Written(reindex(df, template.columns))
                        ELSE Written(df)
           /\ pc' = "written"
           /\ UNCHANGED error

\* The statements after the loop.
WriteOutput ==
    /\ pc = "loop"
    /\ idx > Len(listing)
    /\ Emit(DataFrame(final_rows))
    /\ UNCHANGED <<call, ret, prog, listing, template, idx, TEMPLATE_COLUMNS,
                   final_rows, origin, previous>>

Next ==
    \/ Begin
    \/ SkipEntry
    \/ ProcessPdf
    \/ WriteOutput

Spec == Init /\ [][Next]_vars

---------------------------------------------------------------------------
(* Properties of a run.                                                    *)

\* The entry a collected row came from.
OriginOf(r) == listing[origin[r]]

\* The output table is the collected rows projected on the columns: one
\* line per row, one cell per column in the order of the columns, a column
\* the row lacks empty, a field outside the columns dropped.
AlignedWith(columns) ==
    /\ output.columns = columns
    /\ Len(output.cells) = Len(final_rows)
    /\ \A r \in 1..Len(final_rows) :
           /\ Len(output.cells[r]) = Len(columns)
           /\ \A c \in 1..Len(columns) :
                  output.cells[r][c] = GetOrNone(final_rows[r], columns[c])

\* C3 as stated: every table a run writes is aligned with the schema,
\* whether or not the template could be read.
C3_AlignmentTotal == output.written => AlignedWith(template.columns)

\* C3, amended: every table written by a run that read the template is
\* aligned with the schema: exactly the schema's columns in schema order, a
\* column the record lacks empty, a field outside the schema dropped.
C3_AlignedWhenTemplateRead ==
    (output.written /\ template.state = "ok") => AlignedWith(template.columns)

\* A table written from a readable template, with a row that has a field
\* outside the schema and lacks a column of the schema.
C3_Witness ==
    /\ output.written
    /\ template.state = "ok"
    /\ \E r \in 1..Len(final_rows) :
           /\ \E k \in 1..Len(final_rows[r]) :
                  \A c \in 1..Len(template.columns) :
                      template.columns[c] # final_rows[r][k].key
           /\ \E c \in 1..Len(template.columns) :
                  ~HasKey(final_rows[r], template.columns[c])

\* Whether the OCR of the document fails: the rendering or a page raises.
OcrFails(doc) ==
    \/ doc.render = "raise"
    \/ \E i \in 1..Len(doc.pages) : doc.pages[i].ocr = Raised

\* C6: in extract_multivendor_pdf.py a failure of the acquisition of a
\* document (its native text empty, its OCR raising) never ends the run: the
\* run is never stopped by an exception of extract_text.
C6_AcquisitionFailureNeverCrashes ==
    (prog = "multivendor" /\ pc = "crashed") => error # "extract_text"

\* C7: every run whose template can be read reaches the writing of the
\* output table, whatever the folder holds.  Each step of a run moves it
\* forward (the loop index grows up to the length of the listing), so a
\* run reaches the writing exactly when it cannot stop anywhere else: a
\* run that has left the loop (the only positions with a next step are
\* "start" and "loop") has written the table.
C7_RunCompletes ==
    (template.state = "ok" /\ pc \notin {"idle", "start", "loop"}) => pc = "written"

\* C8: in the scripts with an OCR fallback no collected row comes from a
\* document whose acquired text is empty or whitespace only.
C8_BlankDocumentSkipped ==
    prog \in TemplateFirst =>
        \A r \in 1..Len(final_rows) :
            Strip(Acquire(prog, OriginOf(r).doc).v) # <<>>

\* C10: in every table written with a Field column, the Field cell of each
\* row holds the name of the file the row was extracted from.
C10_FieldPopulated ==
    (output.written /\ prog \in TemplateFirst) =>
        \A c \in 1..Len(output.columns) :
            output.columns[c] = "Field" =>
                \A r \in 1..Len(output.cells) :
                    output.cells[r][c] = StrV(<<OriginOf(r).name>>)

---------------------------------------------------------------------------
(* SpecRerun: extract_multivendor_pdf.py run twice on the same folder.     *)
(*                                                                         *)
(* A second run is a new process: the module-level statements start again  *)
(* with an empty final_rows, the template is read again, and nothing the   *)
(* first run wrote is read (its output file has its own timestamped name). *)
(* os.listdir returns the entries in arbitrary order, so the second run    *)
(* may meet the same entries in another order.                             *)

\* The orders in which the entries of a listing can be returned.
Reorderings(l) ==
    {[i \in 1..Len(l) |-> l[p[i]]] : p \in Permutations(1..Len(l))}

InitRerun ==
    /\ Init
    /\ prog = "multivendor"

\* A second start that finds the rows of the first run still in final_rows.
ReRunKeepRows ==
    /\ pc = "written"
    /\ ~previous.ran
    /\ previous' = [ran |-> TRUE, table |-> output]
    /\ listing' \in Reorderings(listing)
    /\ pc' = "start"
    /\ idx' = 1
    /\ TEMPLATE_COLUMNS' = <<>>
    /\ output' = NoOutput
    /\ UNCHANGED <<call, ret, prog, template, error, final_rows, origin>>

\* The script is started again after a run that wrote its table.
ReRun ==
    /\ pc = "written"
    /\ ~previous.ran
    /\ previous' = [ran |-> TRUE, table |-> output]
    /\ listing' \in Reorderings(listing)
    /\ pc' = "start"
    /\ idx' = 1
    /\ TEMPLATE_COLUMNS' = <<>>
    /\ final_rows' = <<>>
    /\ origin' = <<>>
    /\ output' = NoOutput
    /\ UNCHANGED <<call, ret, prog, template, error>>

NextRerun ==
    \/ Begin
    \/ SkipEntry
    \/ ProcessPdf
    \/ WriteOutput
    \/ ReRun

SpecRerun == InitRerun /\ [][NextRerun]_vars

\* How many lines of the table hold the cells.
Copies(table, cells) ==
    Cardinality({r \in 1..Len(table.cells) : table.cells[r] = cells})

\* The two tables have the same columns and the same lines, each as often
\* in one as in the other.
SameContent(t1, t2) ==
    /\ t1.columns = t2.columns
    /\ Len(t1.cells) = Len(t2.cells)
    /\ \A r \in 1..Len(t1.cells) : Copies(t1, t1.cells[r]) = Copies(t2, t1.cells[r])

\* The rows the document of a collected row yields when processed alone.
RowsAlone(r) ==
    Body(prog, Acquire(prog, OriginOf(r).doc).v, OriginOf(r).name, TEMPLATE_COLUMNS)

---------------------------------------------------------------------------
(* SpecNormalize: normalize and clean_text applied to every text within    *)
(* the bounds, and then once more to their own results.                    *)

NormToks == {" ", "\n", "s100", "emdash", "endash", "-", "x"}

InitNormalize ==
    /\ call \in [fn : {"normalize"}, text : SeqsUpTo(NormToks, MaxNormLen)]
    /\ ret = Pending
    /\ Idle

\* text = normalize(text)
CallNormalize ==
    /\ call.fn = "normalize"
    /\ ret = Pending
    /\ ret' = [passes |-> 1,
               normalize |-> normalize(call.text),
               clean_text |-> clean_text(call.text),
               once |-> [normalize |-> normalize(call.text),
                         clean_text |-> clean_text(call.text)]]
    /\ UNCHANGED <<call, pipeVars>>

\* The functions applied to their own results.
CallNormalizeAgain ==
    /\ call.fn = "normalize"
    /\ ret # Pending
    /\ ret.passes = 1
    /\ ret' = [passes |-> 2,
               normalize |-> normalize(ret.normalize),
               clean_text |-> clean_text(ret.clean_text),
               once |-> ret.once]
    /\ UNCHANGED <<call, pipeVars>>

NextNormalize ==
    \/ CallNormalize
    \/ CallNormalizeAgain

SpecNormalize == InitNormalize /\ [][NextNormalize]_vars

\* C13: normalize applied to its own result returns it unchanged, and so
\* does clean_text.
C13_NormalizeIdempotent ==
    (call.fn = "normalize" /\ ret # Pending /\ ret.passes = 2) =>
        /\ ret.normalize = ret.once.normalize
        /\ ret.clean_text = ret.once.clean_text

\* A second pass over a text with an em dash, an en dash and a run of
\* whitespace at its end, which the first pass changed.
C13_Witness ==
    /\ call.fn = "normalize" /\ ret # Pending /\ ret.passes = 2
    /\ \E i, j \in 1..Len(call.text) :
           call.text[i] = "emdash" /\ call.text[j] = "endash"
    /\ Len(call.text) = MaxNormLen
    /\ IsSpace(call.text[Len(call.text)])
    /\ IsSpace(call.text[Len(call.text) - 1])
    /\ ret.once.normalize # call.text
    /\ ret.once.clean_text # ret.once.normalize

---------------------------------------------------------------------------
(* SpecNumber: normalize_number applied to None and to every string over   *)
(* digit runs, commas, points, blanks and the currency sign within the     *)
(* bounds.                                                                 *)

NumToks == {"rupee", ",", " ", "1", "220", "."}

NumDigits == {"1", "220"}

InitNumber ==
    /\ call \in [fn : {"normalize_number"},
                 val : {NoneV} \cup {StrV(s) : s \in SeqsUpTo(NumToks, MaxNumLen)}]
    /\ ret = Pending
    /\ Idle

CallNormalizeNumber ==
    /\ call.fn = "normalize_number"
    /\ ret = Pending
    /\ ret' = [multivendor |-> normalize_number(call.val),
               amazon |-> normalize_number_amazon(call.val)]
    /\ UNCHANGED <<call, pipeVars>>

NextNumber == CallNormalizeNumber

SpecNumber == InitNumber /\ [][NextNumber]_vars

\* The strings the scripts pass to normalize_number: what the groups
\* ([\d,]+\.\d{2}) and ([\d,]+(?:\.\d+)?) capture, a run of digits and
\* commas, then possibly a point and digits.
IsCapturedAmount(s) ==
    /\ s # <<>>
    /\ s[1] \in NumDigits \cup {","}
    /\ \A i \in 1..Len(s) : s[i] \in NumDigits \cup {",", "."}
    /\ \A i \in 1..Len(s) :
           s[i] = "." => /\ i < Len(s)
                         /\ \A j \in (i + 1)..Len(s) : s[j] \in NumDigits

\* The string is a decimal number: digits with at most one point.
IsDecimal(s) ==
    /\ \A i \in 1..Len(s) : s[i] \in NumDigits \cup {"."}
    /\ \E i \in 1..Len(s) : s[i] \in NumDigits
    /\ Cardinality({i \in 1..Len(s) : s[i] = "."}) <= 1

\* The result is a number without currency sign, comma or blank, or None
\* for an empty input.
NormalizedOk(val, res) ==
    IF val = NoneV \/ val.v = <<>>
    THEN res = NoneV
    ELSE /\ res.k = "str"
         /\ \A i \in 1..Len(res.v) : res.v[i] \notin {"rupee", ",", " "}
         /\ IsDecimal(res.v)

\* C14: for None and for every captured amount, the result of
\* normalize_number (both versions) has no currency sign, comma or blank
\* and is a decimal number, or is None when the input is empty.
C14_NormalizedIsDecimal ==
    (call.fn = "normalize_number" /\ ret # Pending
        /\ (call.val = NoneV \/ IsCapturedAmount(call.val.v))) =>
        /\ NormalizedOk(call.val, ret.multivendor)
        /\ NormalizedOk(call.val, ret.amazon)

\* The same for the captured amounts that hold a digit.
C14_DecimalWhenDigit ==
    (call.fn = "normalize_number" /\ ret # Pending
        /\ call.val # NoneV /\ IsCapturedAmount(call.val.v)
        /\ \E i \in 1..Len(call.val.v) : call.val.v[i] \in NumDigits) =>
        /\ NormalizedOk(call.val, ret.multivendor)
        /\ NormalizedOk(call.val, ret.amazon)

---------------------------------------------------------------------------
(* SpecTotal: extract_total_amount applied to every text within the bounds *)
(* in which each number is one token: no token that holds a digit is       *)
(* directly followed by another.  "w20" is a word of 20 letters.           *)

TotalToks == {"Invoice Value", "Grand Total", " ", "w20", "10.00", "220.00", "220"}

NumbersApart(text) ==
    \A i \in 1..(Len(text) - 1) : ~(HasDigit(text[i]) /\ HasDigit(text[i + 1]))

InitTotal ==
    /\ call \in [fn : {"extract_total_amount"},
                 text : {t \in SeqsUpTo(TotalToks, MaxTotalLen) : NumbersApart(t)}]
    /\ ret = Pending
    /\ Idle

CallExtractTotalAmount ==
    /\ call.fn = "extract_total_amount"
    /\ ret = Pending
    /\ ret' = [total_amount |-> extract_total_amount(call.text)]
    /\ UNCHANGED <<call, pipeVars>>

NextTotal == CallExtractTotalAmount

SpecTotal == InitTotal /\ [][NextTotal]_vars

\* The amount at index j is labelled by the label at index i: between them
\* there are at most 20 characters and no digit.
Labels(i, j) ==
    /\ i < j
    /\ call.text[i] \in TotalLabels
    /\ IsAmount(call.text[j])
    /\ \A k \in (i + 1)..(j - 1) : ~HasDigit(call.text[k])
    /\ WidthOf(SubSeq(call.text, i + 1, j - 1)) <= 20

\* The labelled numbers of the text of the call.
LabelledNumbers ==
    {j \in 1..Len(call.text) : \E i \in 1..Len(call.text) : Labels(i, j)}

\* The decimal-looking numbers of the text: the amounts that stand as
\* words of their own.
DecimalNumbers ==
    {j \in 1..Len(call.text) :
        /\ IsAmount(call.text[j])
        /\ j = 1 \/ IsSpace(call.text[j - 1])
        /\ j = Len(call.text) \/ IsSpace(call.text[j + 1])}

C15_FallbackWitness ==
    /\ call.fn = "extract_total_amount" /\ ret # Pending
    /\ LabelledNumbers = {}
    /\ \E i \in 1..Len(call.text) : call.text[i] \in TotalLabels
    /\ DecimalNumbers # {}
    /\ ret.total_amount = StrV(<<call.text[MaxOf(DecimalNumbers)]>>)

---------------------------------------------------------------------------
(* SpecSeller: extract_seller_flexible of extract_multivendor_pdf.py and   *)
(* of extract_invode_terminal.py applied to every text and every billing   *)
(* address within the bounds.                                              *)

SellerToks == {"Sold By", "ACME", "x", "\n", ",", "Billing Address:"}

BillingToks == {"x", ",", "\n"}

InitSeller ==
    /\ call \in [fn : {"extract_seller_flexible"},
                 text : SeqsUpTo(SellerToks, MaxSellerLen),
                 billing_address :
                     {NoneV} \cup {StrV(b) : b \in SeqsUpTo(BillingToks, MaxBillingLen)}]
    /\ ret = Pending
    /\ Idle

CallExtractSeller ==
    /\ call.fn = "extract_seller_flexible"
    /\ ret = Pending
    /\ ret' = [multivendor |->
                   extract_seller_flexible(call.text, call.billing_address, "multivendor"),
               terminal |->
                   extract_seller_flexible(call.text, call.billing_address, "terminal")]
    /\ UNCHANGED <<call, pipeVars>>

NextSeller == CallExtractSeller

SpecSeller == InitSeller /\ [][NextSeller]_vars

\* The non-empty lines of the Sold By block of the text, none when the
\* text has no block.
BlockLines(s) ==
    LET m == LazyUntil(call.text, "Sold By", SoldByStops(s), TRUE)
    IN  IF m.found THEN StripParts(SplitOn(Strip(m.v), "\n", <<>>)) ELSE <<>>

\* The non-empty segments of the billing address between the separators.
BillingSegments(sep) ==
    IF call.billing_address.k = "str"
    THEN StripParts(SplitOn(call.billing_address.v, sep, <<>>))
    ELSE <<>>

\* The non-empty lines of the text that match the all-caps heuristic.
CapsLines ==
    SelectSeq(StripParts(SplitOn(call.text, "\n", <<>>)), LAMBDA l : l[1] \in CapsToks)

\* The seller name by the fallback order, the billing address cut at sep.
NameByOrder(s, sep) ==
    IF BlockLines(s) # <<>> THEN StrV(BlockLines(s)[1])
    ELSE IF BillingSegments(sep) # <<>> THEN StrV(BillingSegments(sep)[1])
    ELSE IF CapsLines # <<>>
         THEN StrV(StripParts(SplitOn(CapsLines[1], ",", <<>>))[1])
    ELSE NoneV

\* The seller address when the name comes from the Sold By block: the
\* remaining lines joined, None when there is none.
AddressOfBlock(s) ==
    IF Len(BlockLines(s)) > 1
    THEN StrV(Join(Tail(BlockLines(s)), AddressSep(s)))
    ELSE NoneV

\* The fallback order with the billing address cut at sep, for a script.
FollowsOrder(res, s, sep) ==
    /\ res.name = NameByOrder(s, sep)
    /\ BlockLines(s) # <<>> => res.address = AddressOfBlock(s)

---------------------------------------------------------------------------
(* The rows of a run of extract_multivendor_pdf.py.                        *)

\* The segments of a swiggy text that survive: those whose first
\* invoice-value marker is followed by digits other than 0 and 00.
Surviving(text) ==
    LET segs == SplitBlocks(text, 1, <<>>)
    IN  Cardinality({k \in 1..Len(segs) :
                        HasMarker(segs[k]) /\ MarkerDigits(segs[k]) \notin ZeroDigits})

\* The rows a processed text is expected to add.
RowsOfText(text) ==
    IF detect_vendor(text) = "swiggy" THEN Surviving(text) ELSE 1

\* The rows a processed entry is expected to add: none for a name that
\* does not end in .pdf.
RowsOfEntry(entry) ==
    IF IsPdf(entry.name) THEN RowsOfText(extract_text(entry.doc).v) ELSE 0

\* The rows expected of the first n entries of the listing.
RECURSIVE RowsExpected(_)
RowsExpected(n) ==
    IF n = 0 THEN 0 ELSE RowsExpected(n - 1) + RowsOfEntry(listing[n])

\* The entries 1..idx-1 have been processed.
CountMatches ==
    (prog = "multivendor" /\ pc # "start") =>
        Len(final_rows) = RowsExpected(idx - 1)

\* A step keeps the rows collected as they are, at their places.
RowsKept ==
    prog = "multivendor" =>
        /\ Len(final_rows') >= Len(final_rows)
        /\ SubSeq(final_rows', 1, Len(final_rows)) = final_rows

\* The step on an entry whose name does not end in .pdf adds no row and
\* raises nothing.
NonPdfIgnored ==
    (/\ prog = "multivendor" /\ pc = "loop"
     /\ idx <= Len(listing) /\ ~IsPdf(listing[idx].name)) =>
        /\ final_rows' = final_rows
        /\ pc' = "loop" /\ error' = "none"
        /\ idx' = idx + 1

\* C17: in a run of extract_multivendor_pdf.py, after any number of
\* entries processed, the rows collected are as many as one per processed
\* .pdf entry that is not a swiggy document (unknown vendor included) plus
\* the surviving segments of every processed swiggy document; an entry
\* without a .pdf name adds no row and no error; and no step removes or
\* changes a row collected before.
C17_RowCount ==
    /\ []CountMatches
    /\ [][RowsKept /\ NonPdfIgnored]_vars

\* A finished run over a swiggy document with two surviving segments and
\* a .pdf document of unknown vendor: three rows.
C17_Witness ==
    /\ prog = "multivendor" /\ pc = "written"
    /\ Len(listing) = 2
    /\ \E i, j \in 1..2 :
          /\ IsPdf(listing[i].name) /\ IsPdf(listing[j].name)
          /\ detect_vendor(extract_text(listing[i].doc).v) = "swiggy"
          /\ Surviving(extract_text(listing[i].doc).v) = 2
          /\ detect_vendor(extract_text(listing[j].doc).v) = "unknown"
    /\ Len(final_rows) = 3

---------------------------------------------------------------------------
(* The seller fields of the rows of extract_multivendor_pdf.py.            *)

\* The text of the document a collected row came from.
TextOf(r) == extract_text(OriginOf(r).doc).v

\* The place of a collected row among the rows of its document.
RankOf(r) == Cardinality({q \in 1..r : origin[q] = origin[r]})

\* The three seller fields of the row are those of the record.
SellerIs(row, seller) ==
    /\ Get(row, "seller_name") = seller.name
    /\ Get(row, "seller_info") = seller.info
    /\ Get(row, "seller_address") = seller.address

\* The seller fields of the row are what extract_seller_flexible returns on
\* the text and the row's billing address.
SellerFromFlexible(r) ==
    SellerIs(final_rows[r],
             extract_seller_flexible(TextOf(r),
                                     GetOrNone(final_rows[r], "billing_address"),
                                     "multivendor"))

\* The seller_name of the row is the one extract_swiggy set on the row of
\* that place, and the row was given no seller_info by the loop.
SellerFromSwiggy(r) ==
    /\ Get(final_rows[r], "seller_name") =
           Get(extract_swiggy(TextOf(r), OriginOf(r).name, TEMPLATE_COLUMNS)[RankOf(r)],
               "seller_name")
    /\ GetOrNone(final_rows[r], "seller_info") = NoneV

\* C18: in a run of extract_multivendor_pdf.py the seller_name, seller_info
\* and seller_address of every row of a document that is not swiggy are the
\* values extract_seller_flexible returns (the seller_name extract_flipkart
\* wrote is replaced, by None when every fallback fails); the rows of a
\* swiggy document keep the seller_name extract_swiggy set.
C18_SellerOverwritten ==
    prog = "multivendor" =>
        \A r \in 1..Len(final_rows) :
            IF detect_vendor(TextOf(r)) = "swiggy"
            THEN SellerFromSwiggy(r)
            ELSE SellerFromFlexible(r)

\* A finished run over a flipkart document whose Sold By pattern of
\* extract_flipkart captures a name while every seller fallback fails (the
\* row's seller_name is None), and over a swiggy document whose row keeps a
\* seller name that extract_seller_flexible would not have returned.
C18_Witness ==
    /\ prog = "multivendor" /\ pc = "written"
    /\ \E r \in 1..Len(final_rows) :
          /\ detect_vendor(TextOf(r)) = "flipkart"
          /\ Truthy(Get(extract_flipkart(TextOf(r), NoneRow(TEMPLATE_COLUMNS)),
                        "seller_name"))
          /\ Get(final_rows[r], "seller_name") = NoneV
    /\ \E r \in 1..Len(final_rows) :
          /\ detect_vendor(TextOf(r)) = "swiggy"
          /\ Truthy(Get(final_rows[r], "seller_name"))
          /\ Get(final_rows[r], "seller_name") #
                 extract_seller_flexible(TextOf(r), NoneV, "multivendor").name

=============================================================================
